---- MODULE Spec2Model ----
(***************************************************************************)
(* State-machine model of the iobus character driver (src/iobus.c): the    *)
(* session state of IOBUS_DEV, the CPLD registers and dual-port RAMs that  *)
(* write_cpld/read_cpld reach, the completion handler                       *)
(* hdlc_interrupt_handler and the file operations open/read/write/poll/     *)
(* ioctl, each split at the points where another context can interleave.   *)
(***************************************************************************)
EXTENDS Integers, Sequences, FiniteSets, TLC

\* ---------------------------------------------------------------- bounds
MaxLen == 2        \* longest frame (bytes) the model sends or receives
MaxByte == 2       \* payload bytes are 1..MaxByte; 0 is a cell never written

\* ------------------------------------------------------ program constants
EAGAIN == 11
EFAULT == 14
ENOTTY == 25
CH2SEL == 2

Procs == {"p1", "p2"}
IDLE == "IDLE"
BUSY == "BUSY"
Bytes == 1..MaxByte
Offsets == 0..(MaxLen - 1)

\* A frame of n bytes whose byte 0 is b and whose following bytes count up.
FrameOf(b, n) == [i \in 1..n |-> ((b + i - 2) % MaxByte) + 1]
\* The longest frame to send; a short and the longest frame to receive.
TxSome == {FrameOf(1, MaxLen)}
TxTwo == {FrameOf(1, 1), FrameOf(MaxByte, MaxLen)}
RxSome == {FrameOf(1, 1), FrameOf(1, MaxLen)}

\* Bits of the interrupt status register as the handler tests them; OTHER
\* stands for every bit that is neither RMC nor TMC.
IsrBits == {"RMC", "TMC", "OTHER"}

VARIABLES
    opc,         \* position of iobus_open
    lock,        \* iobus_dev->spinlock: "free" or the holder
    send_stat,   \* iobus_dev->send_stat
    recv_stat,   \* iobus_dev->recv_stat
    recv_bytes,  \* iobus_dev->recv_bytes
    recv_buf,    \* iobus_dev->recv_buf
    send_buf,    \* iobus_dev->send_buf
    cpld,        \* CPLD registers written through write_cpld
    txram,       \* CPLD transmit dual-port RAM
    rxram,       \* CPLD receive dual-port RAM and its length registers RDN1/RDN2
    send_wq,     \* processes sleeping on iobus_dev->send_wq
    recv_wq,     \* processes sleeping on iobus_dev->recv_wq
    hpc,         \* position of hdlc_interrupt_handler
    isr,         \* handler local isr (value of the CPLD ISR it observes)
    rsr,         \* handler local rsr (value of the CPLD RSR it observes)
    haddr,       \* handler local addr
    pc,          \* position of each process inside its file operation
    carg,        \* arguments of the call that outlive its first step
    ret,         \* return value of the last call of each process
    ubuf,        \* bytes copy_to_user delivered to the caller of the last read
    mask,        \* poll mask being built by, or returned to, each process
    oops,        \* the kernel has faulted (wake-up of an uninitialised queue)
    gpio1_dr,    \* GPIO1_DR: the strobes (bits 0, 1) and the pin of line 189 (bit 8)
    gpio3_gdir,  \* GPIO3_GDIR: direction of the data lines (bits 16..23)
    gpio3_dr,    \* GPIO3_DR: the data lines (bits 16..23)
    gpio4_dr,    \* GPIO4_DR: the address lines (bits 6..15)
    bpc,         \* position of the lock holder inside write_cpld or read_cpld
    bcyc,        \* addr and data of the bus cycle in progress
    btmp,        \* value ioread32(GPIO1_DR) returned to the cycle in progress
    bval,        \* value returned by the last read_cpld
    apc,         \* position of the handler in lines 189-203
    atmp         \* value ioread32(GPIO1_DR) returned to the handler

vars == <<opc, lock, send_stat, recv_stat, recv_bytes, recv_buf, send_buf, cpld,
          txram, rxram, send_wq, recv_wq, hpc, isr, rsr, haddr, pc, carg,
          ret, ubuf, mask, oops, gpio1_dr, gpio3_gdir, gpio3_dr, gpio4_dr, bpc,
          bcyc, btmp, bval, apc, atmp>>

session == <<send_stat, recv_stat, recv_bytes, recv_buf, send_buf>>
hardware == <<cpld, txram, rxram>>
queues == <<send_wq, recv_wq>>
handler == <<hpc, isr, rsr, haddr>>
procs == <<pc, carg, ret, ubuf, mask>>
pins == <<gpio1_dr, gpio3_gdir, gpio3_dr, gpio4_dr>>
bus == <<pins, bpc, bcyc, btmp, bval, apc, atmp>>
\* Everything but the lock and the bus: what the steps of a bus cycle leave alone.
driver == <<opc, session, hardware, queues, handler, procs, oops>>

\* A control command as iobus_ioctl classifies it: whether _IOC_TYPE(cmd) is
\* IOBUS_IOC_MAGIC, whether _IOC_NR(cmd) is at most IOBUS_IOC_MAXNR, and which
\* case of the switch the whole of cmd matches.  The three commands of the
\* driver carry its magic and a number in range.
Codes == {"IOBUS_IOC_RUN_STAT", "IOBUS_IOC_CH_SEL", "IOBUS_IOC_LED_STAT", "default"}
Cmds == {c \in [magic : BOOLEAN, inrange : BOOLEAN, code : Codes] :
            c.code # "default" => (c.magic /\ c.inrange)}
\* Arguments of a control command; 257 does not fit the 8 data lines.
Args == {0, 257}
NoCmd == [magic |-> FALSE, inrange |-> FALSE, code |-> "default"]
NoArg == [cmd |-> NoCmd, arg |-> 0, count |-> 0]

\* ----------------------------------------------------------- bus engine
\* write_cpld(iobus_dev, addr, data) for a named register: one write cycle
\* latches the low 8 bits of data into the register.
write_cpld(regs, name, data) == [regs EXCEPT ![name] = data]

\* read_cpld(iobus_dev, addr): the value of the named register.
read_cpld(regs, name) == regs[name]

\* (read_cpld(RDN1) | (read_cpld(RDN2) << 8)) & 0xFFFF
RecvLength(ram) == (ram.rdn1 + ram.rdn2 * 256) % 65536

\* -------------------------------------------------------------- the pins
\* A 32-bit pin register is the set of its bits that are 1, so that & is
\* intersection, | is union and << moves every bit up and drops what leaves
\* the word.
Word == 0..31
RECURSIVE Num(_)
Num(bits) == IF bits = {} THEN 0
             ELSE LET i == CHOOSE j \in bits : TRUE IN 2^i + Num(bits \ {i})
\* The bits of a non-negative int.
Bits(n) == {i \in 0..30 : (n \div 2^i) % 2 = 1}
Shl(bits, k) == {i + k : i \in {j \in bits : j + k \in Word}}
Shr(bits, k) == {i - k : i \in {j \in bits : j >= k}}

\* gpio4-6 ~ gpio4-15 are the address lines A0 ~ A9, gpio3-16 ~ gpio3-23 the
\* data lines D0 ~ D7 (lines 112-113).
CPLD_ADDR_SHIFT == 6
CPLD_DATA_SHIFT == 16
GPIO4_ADDR_MSK == Word \ (6..15)
GPIO3_DATA_MSK == Word \ (16..23)

\* Lines 34-52: the strobes are active low, bit 0 and bit 1 of GPIO1_DR.
set_wr(dr) == dr \cap (Word \ {0})
clr_wr(dr) == dr \cup {0}
set_rd(dr) == dr \cap (Word \ {1})
clr_rd(dr) == dr \cup {1}
\* Lines 54-62.
set_data_in(gdir) == gdir \cap (Word \ (16..23))
set_data_out(gdir) == gdir \cup (16..23)
\* Lines 64-67: addr is shifted as it is, nothing cuts it to the ten lines.
set_addr(dr, addr) == (dr \cap GPIO4_ADDR_MSK) \cup Shl(Bits(addr), CPLD_ADDR_SHIFT)
\* Lines 69-72: data is an unsigned char.
write_data(dr, data) ==
    (dr \cap GPIO3_DATA_MSK) \cup Shl(Bits(data % 256), CPLD_DATA_SHIFT)
\* Lines 74-77.
read_data(dr) == Num(Shr(dr \ GPIO3_DATA_MSK, CPLD_DATA_SHIFT)) % 256

\* The pins between two bus cycles: both strobes high, the data lines
\* inputs; bits of other pins of the same banks are set in every register.
IdleStrobes == {0, 1, 4}
IdleDirection == {2}
IdleData == {2, 30}
IdleAddress == {3, 20}

\* Addresses passed to write_cpld and read_cpld: RAM offsets run up to
\* count - 1 (line 322) and recv_bytes - 1 (line 218), both up to 65534.
AddrSome == {1023, 1024}
\* Bytes written to, or held by, the CPLD.
DataSome == {1, 255}

\* The state after iobus_init: the device structure comes from kmalloc, so
\* the two states hold whatever the memory held; the CPLD is at its reset
\* values, where reception may or may not be armed.
Init ==
    /\ opc = "o_start"
    /\ lock = "free"
    /\ send_stat \in {IDLE, BUSY}
    /\ recv_stat \in {IDLE, BUSY}
    /\ recv_bytes = 0
    /\ recv_buf = [i \in Offsets |-> 0]
    /\ send_buf = [i \in Offsets |-> 0]
    /\ \E r \in {{}, {"HREC_EN"}} :
          cpld = [TCR |-> "reset", RPAMR1 |-> 0, IMR |-> {}, RUNSTAT |-> "reset",
                  CHSEL |-> 0, RXTXEN |-> "reset", RTER |-> r, RPAR |-> 0,
                  TNUMR_L |-> 0, TNUMR_H |-> 0, LED |-> 0]
    /\ txram = [i \in Offsets |-> 0]
    /\ rxram = [rdn1 |-> 0, rdn2 |-> 0, data |-> [i \in Offsets |-> 0]]
    /\ send_wq = {}
    /\ recv_wq = {}
    /\ hpc = "idle"
    /\ isr = {}
    /\ rsr = 0
    /\ haddr = 0
    /\ pc = [p \in Procs |-> "idle"]
    /\ carg = [p \in Procs |-> NoArg]
    /\ ret = [p \in Procs |-> 0]
    /\ ubuf = [p \in Procs |-> <<>>]
    /\ mask = [p \in Procs |-> {}]
    /\ oops = FALSE
    /\ gpio1_dr = IdleStrobes
    /\ gpio3_gdir = IdleDirection
    /\ gpio3_dr = IdleData
    /\ gpio4_dr = IdleAddress
    /\ bpc = "none"
    /\ bcyc = [addr |-> 0, data |-> 0]
    /\ btmp = {}
    /\ bval = 0
    /\ apc = "idle"
    /\ atmp = {}

\* ------------------------------------------------------------ iobus_open
\* hdlc_init: the two states are set before the lock is taken, the six
\* registers are written under it.
hdlc_init_regs(regs) ==
    write_cpld(write_cpld(write_cpld(write_cpld(write_cpld(write_cpld(regs,
        "TCR", "ITF_1"),
        "RPAMR1", 127),
        "IMR", {"RMC_EN", "TMC_EN"}),
        "RUNSTAT", "RUNSTAT_S"),
        "CHSEL", CH2SEL),
        "RXTXEN", "RXTXEN_R")

\* iobus_open up to the return of hdlc_init (spin_lock_init, gpio_init,
\* hdlc_init).
iobus_open_init ==
    /\ opc = "o_start" /\ ~oops
    /\ send_stat' = IDLE
    /\ recv_stat' = BUSY
    /\ cpld' = hdlc_init_regs(cpld)
    /\ lock' = "free"
    /\ opc' = "o_irq"
    /\ UNCHANGED <<recv_bytes, recv_buf, send_buf, txram, rxram, queues, handler,
                   procs, oops>>
    /\ UNCHANGED bus

\* request_irq: on success the handler can run from here on; on failure
\* open returns -EAGAIN.
iobus_open_irq ==
    /\ opc = "o_irq" /\ ~oops
    /\ \E ok \in BOOLEAN : opc' = IF ok THEN "o_wq" ELSE "failed"
    /\ UNCHANGED <<lock, session, hardware, queues, handler, procs, oops>>
    /\ UNCHANGED bus

\* tasklet_init and the two init_waitqueue_head calls; open returns 0.
iobus_open_wq ==
    /\ opc = "o_wq" /\ ~oops
    /\ send_wq' = {}
    /\ recv_wq' = {}
    /\ opc' = "opened"
    /\ UNCHANGED <<lock, session, hardware, handler, procs, oops>>
    /\ UNCHANGED bus

IrqRegistered == opc \in {"o_wq", "opened"}
QueuesInitialised == opc = "opened"
Opened == opc = "opened"

\* ------------------------------------------------- hdlc_interrupt_handler
\* The CPLD raises its interrupt line: a completion event.  i is the value
\* the handler will read from ISR, r the value of RSR, f the frame the CPLD
\* has stored in its receive RAM when the event is a receive completion.
\* A frame is received only while reception is armed (HREC_EN), and the
\* arm bit clears itself when the frame is complete (comment at line 222).
completion_event(i, r, f) ==
    /\ IrqRegistered /\ ~oops
    /\ hpc = "idle"
    /\ isr' = i
    /\ IF "RMC" \in i
       THEN /\ "HREC_EN" \in cpld.RTER
            /\ rsr' = r
            /\ rxram' = [rdn1 |-> Len(f) % 256, rdn2 |-> Len(f) \div 256,
                         data |-> [k \in Offsets |->
                                     IF k < Len(f) THEN f[k + 1] ELSE rxram.data[k]]]
            /\ cpld' = write_cpld(cpld, "RTER", cpld.RTER \ {"HREC_EN"})
       ELSE /\ r = 0
            /\ rsr' = 0
            /\ UNCHANGED <<rxram, cpld>>
    /\ hpc' = "entry"
    /\ UNCHANGED <<opc, lock, session, txram, queues, haddr, procs, oops>>
    /\ UNCHANGED bus

RecvBranch_NoStatusCheck == "RMC" \in isr

\* if (isr & RMC) { rsr = read_cpld(RSR); if (rsr == 0) ...
RecvBranch == "RMC" \in isr /\ rsr = 0
XmitBranch_AfterReceive == "TMC" \in isr

\* if (isr & TMC), reached when the receive branch did not return.
XmitBranch == ~RecvBranch /\ "TMC" \in isr

\* wake_up_interruptible on a queue: every sleeper becomes runnable.  On a
\* queue init_waitqueue_head has not yet initialised the call dereferences
\* uninitialised memory: it may fault or find nothing to wake.
WakeOutcomes == IF QueuesInitialised THEN {FALSE} ELSE {FALSE, TRUE}

\* Lines 202-216: spin_lock_irq, the reads of ISR and RSR, the receive
\* branch is taken; the received length is fixed and the drain starts at
\* offset 0.
handler_recv_start ==
    /\ hpc = "entry" /\ ~oops
    /\ lock = "free"
    /\ RecvBranch
    /\ lock' = "irq"
    /\ recv_bytes' = RecvLength(rxram)
    /\ haddr' = 0
    /\ hpc' = "drain"
    /\ UNCHANGED <<opc, send_stat, recv_stat, recv_buf, send_buf, hardware,
                   queues, isr, rsr, procs, oops>>
    /\ UNCHANGED bus

\* Lines 218-221: one iteration of the drain loop.
handler_drain ==
    /\ hpc = "drain" /\ ~oops
    /\ haddr < recv_bytes
    /\ recv_buf' = [recv_buf EXCEPT ![haddr] = rxram.data[haddr]]
    /\ haddr' = haddr + 1
    /\ UNCHANGED <<opc, lock, send_stat, recv_stat, recv_bytes, send_buf, hardware,
                   queues, hpc, isr, rsr, procs, oops>>
    /\ UNCHANGED bus

\* Lines 223-228: re-arm reception, RecvState=Idle, wake the readers,
\* unlock, return IRQ_HANDLED.
handler_recv_done ==
    /\ hpc = "drain" /\ ~oops
    /\ ~(haddr < recv_bytes)
    /\ cpld' = write_cpld(cpld, "RTER", read_cpld(cpld, "RTER") \cup {"HREC_EN"})
    /\ recv_stat' = IDLE
    /\ recv_wq' = {}
    /\ \E crash \in WakeOutcomes : oops' = crash
    /\ lock' = "free"
    /\ hpc' = "idle" /\ isr' = {} /\ rsr' = 0 /\ haddr' = 0
    /\ UNCHANGED <<opc, send_stat, recv_bytes, recv_buf, send_buf, txram, rxram,
                   send_wq, procs>>
    /\ UNCHANGED bus

\* Lines 232-234: direction back to receive; line 235: re-arm reception.
XmitRegs(regs) ==
    LET c1 == write_cpld(regs, "RXTXEN", "RXTXEN_R")
    IN  write_cpld(c1, "RTER", read_cpld(c1, "RTER") \cup {"HREC_EN"})

\* Lines 202-206 and 232-240: spin_lock_irq, the reads of ISR (and RSR),
\* the transmit branch: direction back to receive, re-arm reception,
\* SendState=Idle, wake the writers, unlock, return IRQ_HANDLED.
handler_xmit ==
    /\ hpc = "entry" /\ ~oops
    /\ lock = "free"
    /\ XmitBranch
    /\ cpld' = XmitRegs(cpld)
    /\ send_stat' = IDLE
    /\ send_wq' = {}
    /\ \E crash \in WakeOutcomes : oops' = crash
    /\ lock' = "free"
    /\ hpc' = "idle" /\ isr' = {} /\ rsr' = 0
    /\ UNCHANGED <<opc, recv_stat, recv_bytes, recv_buf, send_buf, txram, rxram,
                   recv_wq, haddr, procs>>
    /\ UNCHANGED bus

\* Lines 202-206 and 241: spin_lock_irq, the reads of ISR (and RSR), neither
\* branch is taken: return IRQ_NONE.  No spin_unlock_irq precedes the return,
\* so the handler leaves with the lock taken.
handler_none ==
    /\ hpc = "entry" /\ ~oops
    /\ lock = "free"
    /\ ~RecvBranch /\ ~XmitBranch
    /\ lock' = "irq"
    /\ hpc' = "idle" /\ isr' = {} /\ rsr' = 0
    /\ UNCHANGED <<opc, session, hardware, queues, haddr, procs, oops>>
    /\ UNCHANGED bus

hdlc_interrupt_handler ==
    \/ handler_recv_start
    \/ handler_drain
    \/ handler_recv_done
    \/ handler_xmit
    \/ handler_none

\* ------------------------------------------------------- file operations
\* A process is outside the driver ("idle"), inside one of the file
\* operations, or has just returned from one ("w_done", "r_done", "p_done",
\* "i_done") with the result in ret, ubuf or mask.  The first step of an
\* operation is taken from "idle".
At(p, first) == Opened /\ ~oops /\ pc[p] \in {"idle", first}

\* The caller has taken the result; the locals of the call are gone.
leave(p) ==
    /\ ~oops
    /\ pc[p] \in {"w_done", "r_done", "p_done", "i_done"}
    /\ pc' = [pc EXCEPT ![p] = "idle"]
    /\ carg' = [carg EXCEPT ![p] = NoArg]
    /\ ret' = [ret EXCEPT ![p] = 0]
    /\ ubuf' = [ubuf EXCEPT ![p] = <<>>]
    /\ mask' = [mask EXCEPT ![p] = {}]
    /\ UNCHANGED <<opc, lock, session, hardware, queues, handler, oops>>
    /\ UNCHANGED bus

\* A signal ends the sleep of wait_event_interruptible early.
signal(p) ==
    /\ ~oops
    /\ p \in send_wq \cup recv_wq
    /\ send_wq' = send_wq \ {p}
    /\ recv_wq' = recv_wq \ {p}
    /\ UNCHANGED <<opc, lock, session, hardware, handler, procs, oops>>
    /\ UNCHANGED bus

\* ----------------------------------------------------------- iobus_write
WriteBlocked_Never(stat) == FALSE

\* Line 308: while (iobus_dev->send_stat == BUSY).
WriteBlocked(stat) == stat = BUSY

\* Lines 308-313: the test of send_stat; nonblock is filp->f_flags & O_NONBLOCK
\* at the moment of the test.
iobus_write_check(p, nonblock) ==
    /\ At(p, "w_check")
    /\ IF WriteBlocked(send_stat)
       THEN IF nonblock
            THEN /\ ret' = [ret EXCEPT ![p] = -EAGAIN]
                 /\ pc' = [pc EXCEPT ![p] = "w_done"]
                 /\ UNCHANGED send_wq
            ELSE /\ send_wq' = send_wq \cup {p}
                 /\ pc' = [pc EXCEPT ![p] = "w_wait"]
                 /\ UNCHANGED ret
       ELSE /\ pc' = [pc EXCEPT ![p] = "w_copy"]
            /\ UNCHANGED <<send_wq, ret>>
    /\ UNCHANGED <<opc, lock, session, hardware, recv_wq, handler, carg, ubuf,
                   mask, oops>>
    /\ UNCHANGED bus

\* Line 312: the sleeper has been woken (or signalled) and goes back to the
\* test of the while loop.
iobus_write_woken(p) ==
    /\ pc[p] = "w_wait" /\ ~oops
    /\ p \notin send_wq
    /\ pc' = [pc EXCEPT ![p] = "w_check"]
    /\ UNCHANGED <<opc, lock, session, hardware, queues, handler, carg, ret,
                   ubuf, mask, oops>>
    /\ UNCHANGED bus

Uncopied_AlwaysZero(k, n) == 0

\* The return value of copy_from_user and copy_to_user: the number of bytes
\* that could not be copied, of n requested when k are accessible.
Uncopied(k, n) == n - k

\* copy_from_user(to, from, n) when only the first k bytes of the source are
\* readable: k bytes are copied and the rest of the destination is zeroed.
copy_from_user(to, from, k) ==
    [i \in Offsets |-> IF i < k THEN from[i + 1]
                       ELSE IF i < Len(from) THEN 0 ELSE to[i]]

\* Lines 315-319: f is the caller's buffer (count = Len(f)), k the number of
\* its bytes that can be read; k < count is the fault.
iobus_write_copy(p, f, k) ==
    /\ pc[p] = "w_copy" /\ ~oops
    /\ k \in 0..Len(f)
    /\ send_buf' = copy_from_user(send_buf, f, k)
    /\ IF Uncopied(k, Len(f)) = 0
       THEN /\ carg' = [carg EXCEPT ![p].count = Len(f)]
            /\ pc' = [pc EXCEPT ![p] = "w_lock"]
            /\ UNCHANGED ret
       ELSE /\ ret' = [ret EXCEPT ![p] = -EFAULT]
            /\ pc' = [pc EXCEPT ![p] = "w_done"]
            /\ UNCHANGED carg
    /\ UNCHANGED <<opc, lock, send_stat, recv_stat, recv_bytes, recv_buf, hardware,
                   queues, handler, ubuf, mask, oops>>
    /\ UNCHANGED bus

\* Line 321: spin_lock_irq.
iobus_write_lock(p) ==
    /\ pc[p] = "w_lock" /\ ~oops
    /\ lock = "free"
    /\ lock' = p
    /\ pc' = [pc EXCEPT ![p] = "w_xmit"]
    /\ UNCHANGED <<opc, session, hardware, queues, handler, carg, ret, ubuf,
                   mask, oops>>
    /\ UNCHANGED bus

StageRegs_NoReplyAddress(regs, buf, count) ==
    write_cpld(write_cpld(regs,
        "TNUMR_L", count % 256),
        "TNUMR_H", (count \div 256) % 256)

\* Lines 322-329: the frame into the transmit RAM, byte 0 into RPAR, the
\* length into TNUMR_L and TNUMR_H.
StageRegs(regs, buf, count) ==
    write_cpld(write_cpld(write_cpld(regs,
        "RPAR", buf[0]),
        "TNUMR_L", count % 256),
        "TNUMR_H", (count \div 256) % 256)

StageRam(ram, buf, count) ==
    [addr \in Offsets |-> IF addr < count THEN buf[addr] ELSE ram[addr]]

ArmRegs_NoDirection(regs) ==
    write_cpld(regs, "RTER", read_cpld(regs, "RTER") \cup {"HSND_EN"})

\* Lines 331-332: direction to transmit, then the transmit-arm bit.
ArmRegs(regs) ==
    LET c1 == write_cpld(regs, "RXTXEN", "RXTXEN_T")
    IN  write_cpld(c1, "RTER", read_cpld(c1, "RTER") \cup {"HSND_EN"})

\* Lines 322-336, all under the lock.
iobus_write_xmit(p) ==
    /\ pc[p] = "w_xmit" /\ ~oops
    /\ txram' = StageRam(txram, send_buf, carg[p].count)
    /\ cpld' = ArmRegs(StageRegs(cpld, send_buf, carg[p].count))
    /\ send_stat' = BUSY
    /\ lock' = "free"
    /\ ret' = [ret EXCEPT ![p] = carg[p].count]
    /\ pc' = [pc EXCEPT ![p] = "w_done"]
    /\ UNCHANGED <<opc, recv_stat, recv_bytes, recv_buf, send_buf, rxram,
                   queues, handler, carg, ubuf, mask, oops>>
    /\ UNCHANGED bus

\* iobus_write_xmit taken one group of bus cycles at a time, for the order
\* of the cycles inside the locked section.  Lines 322-329: the RAM loop,
\* RPAR, TNUMR_L, TNUMR_H.
iobus_write_stage(p) ==
    /\ pc[p] = "w_xmit" /\ ~oops
    /\ txram' = StageRam(txram, send_buf, carg[p].count)
    /\ cpld' = StageRegs(cpld, send_buf, carg[p].count)
    /\ pc' = [pc EXCEPT ![p] = "w_arm"]
    /\ UNCHANGED <<opc, lock, session, rxram, queues, handler, carg, ret, ubuf,
                   mask, oops>>
    /\ UNCHANGED bus

\* Lines 331-332: RXTXEN, then the read-modify-write of RTER.
iobus_write_arm(p) ==
    /\ pc[p] = "w_arm" /\ ~oops
    /\ cpld' = ArmRegs(cpld)
    /\ pc' = [pc EXCEPT ![p] = "w_busy"]
    /\ UNCHANGED <<opc, lock, session, txram, rxram, queues, handler, carg, ret,
                   ubuf, mask, oops>>
    /\ UNCHANGED bus

\* Lines 334-336: send_stat = BUSY, spin_unlock_irq, return count.
iobus_write_busy(p) ==
    /\ pc[p] = "w_busy" /\ ~oops
    /\ send_stat' = BUSY
    /\ lock' = "free"
    /\ ret' = [ret EXCEPT ![p] = carg[p].count]
    /\ pc' = [pc EXCEPT ![p] = "w_done"]
    /\ UNCHANGED <<opc, recv_stat, recv_bytes, recv_buf, send_buf, hardware,
                   queues, handler, carg, ubuf, mask, oops>>
    /\ UNCHANGED bus

\* iobus_write with the locked section taken in its three groups.
iobus_write_steps(p, F) ==
    \/ \E nonblock \in BOOLEAN : iobus_write_check(p, nonblock)
    \/ iobus_write_woken(p)
    \/ \E f \in F, k \in 0..MaxLen : iobus_write_copy(p, f, k)
    \/ iobus_write_lock(p)
    \/ iobus_write_stage(p)
    \/ iobus_write_arm(p)
    \/ iobus_write_busy(p)

\* iobus_write by process p with the caller's buffer drawn from F.
iobus_write(p, F) ==
    \/ \E nonblock \in BOOLEAN : iobus_write_check(p, nonblock)
    \/ iobus_write_woken(p)
    \/ \E f \in F, k \in 0..MaxLen : iobus_write_copy(p, f, k)
    \/ iobus_write_lock(p)
    \/ iobus_write_xmit(p)

\* ------------------------------------------------------------ iobus_read
\* Line 343: while (iobus_dev->recv_stat == BUSY).
ReadBlocked(stat) == stat = BUSY

\* Lines 343-348: the test of recv_stat; c is the count the caller passed,
\* the capacity of its buffer, which the call keeps and never uses.
iobus_read_check(p, nonblock, c) ==
    /\ At(p, "r_check")
    /\ pc[p] = "r_check" => c = carg[p].count
    /\ carg' = [carg EXCEPT ![p].count = c]
    /\ IF ReadBlocked(recv_stat)
       THEN IF nonblock
            THEN /\ ret' = [ret EXCEPT ![p] = -EAGAIN]
                 /\ pc' = [pc EXCEPT ![p] = "r_done"]
                 /\ UNCHANGED recv_wq
            ELSE /\ recv_wq' = recv_wq \cup {p}
                 /\ pc' = [pc EXCEPT ![p] = "r_wait"]
                 /\ UNCHANGED ret
       ELSE /\ pc' = [pc EXCEPT ![p] = "r_copy"]
            /\ UNCHANGED <<recv_wq, ret>>
    /\ UNCHANGED <<opc, lock, session, hardware, send_wq, handler, ubuf,
                   mask, oops>>
    /\ UNCHANGED bus

\* Line 347: woken or signalled, back to the test of the while loop.
iobus_read_woken(p) ==
    /\ pc[p] = "r_wait" /\ ~oops
    /\ p \notin recv_wq
    /\ pc' = [pc EXCEPT ![p] = "r_check"]
    /\ UNCHANGED <<opc, lock, session, hardware, queues, handler, carg, ret,
                   ubuf, mask, oops>>
    /\ UNCHANGED bus

\* copy_to_user(buf, recv_buf, n) when only the first k bytes of the
\* destination are writable: what reaches the caller.
copy_to_user(from, k) == [i \in 1..k |-> from[i - 1]]

\* Lines 349-352: recv_bytes is read here as the length of the copy; k is the
\* number of bytes of the caller's buffer that can be written, k < recv_bytes
\* is the fault.
iobus_read_copy(p, k) ==
    /\ pc[p] = "r_copy" /\ ~oops
    /\ k \in 0..recv_bytes
    /\ ubuf' = [ubuf EXCEPT ![p] = copy_to_user(recv_buf, k)]
    /\ IF Uncopied(k, recv_bytes) = 0
       THEN /\ pc' = [pc EXCEPT ![p] = "r_busy"]
            /\ UNCHANGED ret
       ELSE /\ ret' = [ret EXCEPT ![p] = -EFAULT]
            /\ pc' = [pc EXCEPT ![p] = "r_done"]
    /\ UNCHANGED <<opc, lock, session, hardware, queues, handler, carg, mask,
                   oops>>
    /\ UNCHANGED bus

\* Line 353: recv_stat = BUSY.
iobus_read_busy(p) ==
    /\ pc[p] = "r_busy" /\ ~oops
    /\ recv_stat' = BUSY
    /\ pc' = [pc EXCEPT ![p] = "r_ret"]
    /\ UNCHANGED <<opc, lock, send_stat, recv_bytes, recv_buf, send_buf, hardware,
                   queues, handler, carg, ret, ubuf, mask, oops>>
    /\ UNCHANGED bus

\* Line 354: return iobus_dev->recv_bytes.
iobus_read_ret(p) ==
    /\ pc[p] = "r_ret" /\ ~oops
    /\ ret' = [ret EXCEPT ![p] = recv_bytes]
    /\ pc' = [pc EXCEPT ![p] = "r_done"]
    /\ UNCHANGED <<opc, lock, session, hardware, queues, handler, carg, ubuf,
                   mask, oops>>
    /\ UNCHANGED bus

\* iobus_read by process p with the capacity of its buffer drawn from C.
iobus_read(p, C) ==
    \/ \E nonblock \in BOOLEAN, c \in C : iobus_read_check(p, nonblock, c)
    \/ iobus_read_woken(p)
    \/ \E k \in 0..MaxLen : iobus_read_copy(p, k)
    \/ iobus_read_busy(p)
    \/ iobus_read_ret(p)

\* ------------------------------------------------------------ iobus_poll
\* Lines 361-365: poll_wait on both queues (the caller does not sleep
\* here), then the sample of recv_stat.
PollIn(stat) == IF stat = IDLE THEN {"POLLIN", "POLLRDNORM"} ELSE {}
PollOut_Inverted(stat) == IF stat = BUSY THEN {"POLLOUT", "POLLWRNORM"} ELSE {}

\* Lines 369-370: the sample of send_stat.
PollOut(stat) == IF stat = IDLE THEN {"POLLOUT", "POLLWRNORM"} ELSE {}

iobus_poll_recv(p) ==
    /\ At(p, "p_recv")
    /\ mask' = [mask EXCEPT ![p] = PollIn(recv_stat)]
    /\ pc' = [pc EXCEPT ![p] = "p_send"]
    /\ UNCHANGED <<opc, lock, session, hardware, queues, handler, carg, ret,
                   ubuf, oops>>
    /\ UNCHANGED bus

iobus_poll_send(p) ==
    /\ pc[p] = "p_send" /\ ~oops
    /\ mask' = [mask EXCEPT ![p] = mask[p] \cup PollOut(send_stat)]
    /\ pc' = [pc EXCEPT ![p] = "p_done"]
    /\ UNCHANGED <<opc, lock, session, hardware, queues, handler, carg, ret,
                   ubuf, oops>>
    /\ UNCHANGED bus

iobus_poll(p) == iobus_poll_recv(p) \/ iobus_poll_send(p)

\* ----------------------------------------------------------- iobus_ioctl
Rejected_OnlyMagic(c) == ~c.magic

\* Lines 377-380: the two checks at the boundary.
Rejected(c) == ~c.magic \/ ~c.inrange

iobus_ioctl_check(p, c, a) ==
    /\ Opened /\ ~oops /\ pc[p] = "idle"
    /\ carg' = [carg EXCEPT ![p] = [cmd |-> c, arg |-> a, count |-> 0]]
    /\ IF Rejected(c)
       THEN /\ ret' = [ret EXCEPT ![p] = -ENOTTY]
            /\ pc' = [pc EXCEPT ![p] = "i_done"]
       ELSE /\ pc' = [pc EXCEPT ![p] = "i_lock"]
            /\ UNCHANGED ret
    /\ UNCHANGED <<opc, lock, session, hardware, queues, handler, ubuf, mask, oops>>
    /\ UNCHANGED bus

\* Line 381: spin_lock_irq.
iobus_ioctl_lock(p) ==
    /\ pc[p] = "i_lock" /\ ~oops
    /\ lock = "free"
    /\ lock' = p
    /\ pc' = [pc EXCEPT ![p] = "i_switch"]
    /\ UNCHANGED <<opc, session, hardware, queues, handler, carg, ret, ubuf,
                   mask, oops>>
    /\ UNCHANGED bus

\* Lines 382-398: the switch; the data lines carry the low 8 bits of arg.
IoctlRegs(regs, c, a) ==
    CASE c.code = "IOBUS_IOC_RUN_STAT" ->
            write_cpld(regs, "RUNSTAT", IF a = 0 THEN "RUNSTAT_S" ELSE "RUNSTAT_M")
      [] c.code = "IOBUS_IOC_CH_SEL" -> write_cpld(regs, "CHSEL", a % 256)
      [] c.code = "IOBUS_IOC_LED_STAT" -> write_cpld(regs, "LED", a % 256)
      [] OTHER -> regs

\* Lines 382-400: the switch, spin_unlock_irq, return 0.
iobus_ioctl_switch(p) ==
    /\ pc[p] = "i_switch" /\ ~oops
    /\ cpld' = IoctlRegs(cpld, carg[p].cmd, carg[p].arg)
    /\ lock' = "free"
    /\ ret' = [ret EXCEPT ![p] = 0]
    /\ pc' = [pc EXCEPT ![p] = "i_done"]
    /\ UNCHANGED <<opc, session, txram, rxram, queues, handler, carg, ubuf,
                   mask, oops>>
    /\ UNCHANGED bus

iobus_ioctl(p) ==
    \/ \E c \in Cmds, a \in Args : iobus_ioctl_check(p, c, a)
    \/ iobus_ioctl_lock(p)
    \/ iobus_ioctl_switch(p)

\* iobus_open.
iobus_open == iobus_open_init \/ iobus_open_irq \/ iobus_open_wq

\* Completion events whose observed status is drawn from I and whose
\* received frame is drawn from F.
Events(I, F) == \E i \in I, r \in {0, 1}, f \in F : completion_event(i, r, f)

AllStatus == SUBSET IsrBits

\* One process writes, the other reads, and both poll.
Next ==
    \/ \E p \in Procs : leave(p)
    \/ \E p \in Procs : signal(p)
    \/ iobus_write("p1", TxSome)
    \/ iobus_read("p2", {MaxLen})
    \/ \E p \in Procs : iobus_poll(p)
    \/ iobus_open
    \/ Events(AllStatus, RxSome)
    \/ hdlc_interrupt_handler

Spec == Init /\ [][Next]_vars

\* Two processes write.
NextSend ==
    \/ \E p \in Procs : leave(p)
    \/ \E p \in Procs : signal(p)
    \/ \E p \in Procs : iobus_write(p, TxTwo)
    \/ iobus_open
    \/ Events(AllStatus, {FrameOf(1, 1)})
    \/ hdlc_interrupt_handler

SpecSend == Init /\ [][NextSend]_vars

\* One process issues control commands, the other writes.
NextCtl ==
    \/ \E p \in Procs : leave(p)
    \/ \E p \in Procs : signal(p)
    \/ iobus_ioctl("p1")
    \/ iobus_write("p2", TxSome)
    \/ iobus_open
    \/ Events(AllStatus, {FrameOf(1, 1)})
    \/ hdlc_interrupt_handler

SpecCtl == Init /\ [][NextCtl]_vars

\* One process writes, with the locked section of iobus_write taken in its
\* three groups of bus cycles.
NextOrder ==
    \/ \E p \in Procs : leave(p)
    \/ \E p \in Procs : signal(p)
    \/ iobus_write_steps("p1", TxTwo)
    \/ iobus_open
    \/ Events(AllStatus, {FrameOf(1, 1)})
    \/ hdlc_interrupt_handler

SpecOrder == Init /\ [][NextOrder]_vars

\* ----------------------------------------------- bus cycles, pin by pin
\* The steps of write_cpld and read_cpld as the holder of the lock executes
\* them, and lines 183-203 of the handler.  Every helper of lines 34-72 is
\* an ioread32 followed by an iowrite32; those on GPIO1_DR, the bank the
\* handler also writes, are taken in these two steps.

\* A process is inside a locked section (lines 321, 381), or the handler has
\* taken the lock and is about to read ISR (line 203).
Holder == lock \in Procs \/ (lock = "irq" /\ apc = "isr")

\* What GPIO3_DR shows on the data lines when they are inputs: the byte the
\* CPLD drives while the read strobe is low, anything once it is high.
Sampled(strobes, byte) == IF 1 \notin strobes THEN {byte} ELSE {0, byte}

\* spin_lock_irq of a file operation (lines 321, 381).
bus_lock(p) ==
    /\ Opened /\ ~oops
    /\ lock = "free"
    /\ lock' = p
    /\ UNCHANGED <<driver, bus>>

\* spin_unlock_irq of a file operation (lines 335, 399).
bus_unlock(p) ==
    /\ lock = p /\ bpc = "none"
    /\ lock' = "free"
    /\ UNCHANGED <<driver, bus>>

\* Line 87: write_cpld(addr, data) starts, set_data_out.
write_cpld_out(a, d) ==
    /\ Holder /\ lock # "irq" /\ bpc = "none"
    /\ bcyc' = [addr |-> a, data |-> d]
    /\ gpio3_gdir' = set_data_out(gpio3_gdir)
    /\ bpc' = "w_addr"
    /\ UNCHANGED <<lock, driver, gpio1_dr, gpio3_dr, gpio4_dr, btmp, bval, apc, atmp>>

\* Line 88: set_addr.
write_cpld_addr ==
    /\ bpc = "w_addr"
    /\ gpio4_dr' = set_addr(gpio4_dr, bcyc.addr)
    /\ bpc' = "w_data"
    /\ UNCHANGED <<lock, driver, gpio1_dr, gpio3_gdir, gpio3_dr, bcyc, btmp, bval, apc, atmp>>

\* Line 89: write_data.
write_cpld_data ==
    /\ bpc = "w_data"
    /\ gpio3_dr' = write_data(gpio3_dr, bcyc.data)
    /\ bpc' = "w_set_wr"
    /\ UNCHANGED <<lock, driver, gpio1_dr, gpio3_gdir, gpio4_dr, bcyc, btmp, bval, apc, atmp>>

\* The ioread32 of set_wr, clr_wr, set_rd, clr_rd (lines 36, 41, 46, 51).
strobe_load ==
    /\ bpc \in {"w_set_wr", "w_clr_wr", "r_set_rd", "r_clr_rd"}
    /\ btmp' = gpio1_dr
    /\ bpc' = CASE bpc = "w_set_wr" -> "w_set_wr_st"
                [] bpc = "w_clr_wr" -> "w_clr_wr_st"
                [] bpc = "r_set_rd" -> "r_set_rd_st"
                [] bpc = "r_clr_rd" -> "r_clr_rd_st"
    /\ UNCHANGED <<lock, driver, pins, bcyc, bval, apc, atmp>>

\* The iowrite32 of set_wr, clr_wr, set_rd, clr_rd.
strobe_store ==
    /\ bpc \in {"w_set_wr_st", "w_clr_wr_st", "r_set_rd_st", "r_clr_rd_st"}
    /\ gpio1_dr' = CASE bpc = "w_set_wr_st" -> set_wr(btmp)
                     [] bpc = "w_clr_wr_st" -> clr_wr(btmp)
                     [] bpc = "r_set_rd_st" -> set_rd(btmp)
                     [] bpc = "r_clr_rd_st" -> clr_rd(btmp)
    /\ bpc' = CASE bpc = "w_set_wr_st" -> "w_clr_wr"
                [] bpc = "w_clr_wr_st" -> "w_in"
                [] bpc = "r_set_rd_st" -> "r_clr_rd"
                [] bpc = "r_clr_rd_st" -> "r_sample"
    /\ UNCHANGED <<lock, driver, gpio3_gdir, gpio3_dr, gpio4_dr, bcyc, btmp, bval,
                   apc, atmp>>

\* Line 92: set_data_in, write_cpld returns.
write_cpld_in ==
    /\ bpc = "w_in"
    /\ gpio3_gdir' = set_data_in(gpio3_gdir)
    /\ bpc' = "none"
    /\ UNCHANGED <<lock, driver, gpio1_dr, gpio3_dr, gpio4_dr, bcyc, btmp, bval, apc, atmp>>

\* Line 102: read_cpld(addr) starts, set_data_in; v is the byte the CPLD
\* holds at addr.
read_cpld_in(a, v) ==
    /\ Holder /\ bpc = "none"
    /\ bcyc' = [addr |-> a, data |-> v]
    /\ gpio3_gdir' = set_data_in(gpio3_gdir)
    /\ bpc' = "r_addr"
    /\ UNCHANGED <<lock, driver, gpio1_dr, gpio3_dr, gpio4_dr, btmp, bval, apc, atmp>>

\* Line 103: set_addr.
read_cpld_addr ==
    /\ bpc = "r_addr"
    /\ gpio4_dr' = set_addr(gpio4_dr, bcyc.addr)
    /\ bpc' = "r_set_rd"
    /\ UNCHANGED <<lock, driver, gpio1_dr, gpio3_gdir, gpio3_dr, bcyc, btmp, bval, apc, atmp>>

\* Line 106: return read_data(): GPIO3_DR is read after clr_rd has raised the
\* strobe.  The handler goes on from its read of ISR.
read_cpld_sample ==
    /\ bpc = "r_sample"
    /\ \E v \in Sampled(gpio1_dr, bcyc.data) :
          /\ gpio3_dr' = write_data(gpio3_dr, v)
          /\ bval' = read_data(gpio3_dr')
    /\ bpc' = "none"
    /\ apc' = IF lock = "irq" THEN "ret" ELSE apc
    /\ UNCHANGED <<lock, driver, gpio1_dr, gpio3_gdir, gpio4_dr, bcyc, btmp, atmp>>

\* Lines 177-188: the interrupt line rises and the handler is entered.
handler_irq ==
    /\ IrqRegistered /\ ~oops
    /\ apc = "idle"
    /\ apc' = "ack1"
    /\ UNCHANGED <<lock, driver, pins, bpc, bcyc, btmp, bval, atmp>>

\* The ioread32 of line 189 and of line 190; the lock is not held.
handler_ack_load ==
    /\ apc \in {"ack1", "ack2"}
    /\ atmp' = gpio1_dr
    /\ apc' = IF apc = "ack1" THEN "ack1_st" ELSE "ack2_st"
    /\ UNCHANGED <<lock, driver, pins, bpc, bcyc, btmp, bval>>

\* The iowrite32 of line 189 (0x100 | value) and of line 190
\* (0xfffffeff & value).
handler_ack_store ==
    /\ apc \in {"ack1_st", "ack2_st"}
    /\ gpio1_dr' = IF apc = "ack1_st" THEN atmp \cup {8} ELSE atmp \cap (Word \ {8})
    /\ apc' = IF apc = "ack1_st" THEN "ack2" ELSE "lock"
    /\ UNCHANGED <<lock, driver, gpio3_gdir, gpio3_dr, gpio4_dr, bpc, bcyc, btmp,
                   bval, atmp>>

\* Line 202: spin_lock_irq.
handler_lock ==
    /\ apc = "lock"
    /\ lock = "free"
    /\ lock' = "irq"
    /\ apc' = "isr"
    /\ UNCHANGED <<driver, pins, bpc, bcyc, btmp, bval, atmp>>

\* The handler returns: with spin_unlock_irq (lines 227, 238) or without
\* (line 241).
handler_return ==
    /\ apc = "ret"
    /\ \E handled \in BOOLEAN : lock' = IF handled THEN "free" ELSE "irq"
    /\ apc' = "idle"
    /\ UNCHANGED <<driver, pins, bpc, bcyc, btmp, bval, atmp>>

\* A process runs bus cycles inside a locked section while completion
\* events arrive.
NextBus ==
    \/ iobus_open
    \/ bus_lock("p1")
    \/ bus_unlock("p1")
    \/ \E a \in AddrSome, d \in DataSome : write_cpld_out(a, d)
    \/ write_cpld_addr
    \/ write_cpld_data
    \/ strobe_load
    \/ strobe_store
    \/ write_cpld_in
    \/ \E a \in AddrSome, v \in DataSome : read_cpld_in(a, v)
    \/ read_cpld_addr
    \/ read_cpld_sample
    \/ handler_irq
    \/ handler_ack_load
    \/ handler_ack_store
    \/ handler_lock
    \/ handler_return

SpecBus == Init /\ [][NextBus]_vars

\* One process reads into buffers of every capacity.
NextRead ==
    \/ leave("p2")
    \/ signal("p2")
    \/ iobus_read("p2", 0..MaxLen)
    \/ iobus_open
    \/ Events(AllStatus, RxSome)
    \/ hdlc_interrupt_handler

SpecRead == Init /\ [][NextRead]_vars

\* ================================================================ claims

\* C1: every read that returns a length has delivered exactly that many
\* bytes, and they are the bytes of one frame the CPLD received: the copy
\* (line 349) and the returned recv_bytes (line 354) belong to one frame.
C1_ReadDeliversOneFrame ==
    \A p \in Procs :
        (pc[p] = "r_done" /\ ret[p] >= 0) =>
            (Len(ubuf[p]) = ret[p] /\ ubuf[p] \in RxSome)

\* C2: no caller of iobus_write writes the transmit RAM, RPAR, the length
\* registers or the transmit-arm bit (lines 322-332) while SendState=Busy.
C2_NoStagingWhileBusy ==
    [][\A p \in Procs :
          (pc[p] = "w_xmit" /\ pc'[p] = "w_done") => send_stat = IDLE]_vars

\* C3: a transmit-complete event delivered while a caller is blocked in
\* iobus_write is dispatched: the handler is not left waiting for a lock
\* that no context will release, so SendState becomes Idle and the caller
\* proceeds.
C3_TransmitCompleteDispatched ==
    (hpc = "entry" /\ "TMC" \in isr /\ send_wq # {}) => lock # "irq"

\* The observed status is an anomaly: neither completion flag, or a receive
\* completion whose receive status reports an error.
AnomalyAsClaimed ==
    \/ "RMC" \notin isr /\ "TMC" \notin isr
    \/ "RMC" \in isr /\ rsr # 0
\* The same, with the transmit-complete flag clear in the second case.
Anomaly ==
    \/ "RMC" \notin isr /\ "TMC" \notin isr
    \/ "RMC" \in isr /\ rsr # 0 /\ "TMC" \notin isr
\* The dispatch returns having changed no state, written no CPLD register
\* and woken no waiter.
Dropped ==
    /\ hpc' = "idle"
    /\ UNCHANGED <<send_stat, recv_stat, recv_bytes, recv_buf, cpld, txram,
                   send_wq, recv_wq>>

\* C4 as claimed: a dispatch that observes neither flag, or the receive flag
\* with a receive error whatever the other bits, is dropped.
C4_AnomalyDroppedAsClaimed ==
    [][(hpc = "entry" /\ hpc' # "entry" /\ AnomalyAsClaimed) => Dropped]_vars

\* C4 as amended: a dispatch that observes neither flag, or the receive flag
\* with a receive error and the transmit-complete flag clear, changes neither
\* SendState nor RecvState nor recv_bytes/recv_buf, writes no CPLD register
\* and wakes no waiter.
C4_AnomalyDropped ==
    [][(hpc = "entry" /\ hpc' # "entry" /\ Anomaly) => Dropped]_vars

\* An anomaly dispatch has returned while a writer and a reader sleep.
C4_Witness ==
    /\ hpc = "idle" /\ lock = "irq"
    /\ send_stat = BUSY /\ recv_stat = BUSY
    /\ send_wq = {"p1"} /\ recv_wq = {"p2"}

\* What a call that returns WouldBlock or a fault must leave alone.
CallFrame == UNCHANGED <<send_stat, recv_stat, recv_bytes, recv_buf, cpld, txram,
                         rxram, send_wq, recv_wq, lock>>

\* C5: a non-blocking write that finds SendState=Busy and a non-blocking read
\* that finds RecvState=Busy return -EAGAIN and change neither state, nor
\* the buffers, nor a CPLD register; and from open until the first receive
\* drain RecvState is Busy, so such a read returns -EAGAIN.
C5_WouldBlock ==
    /\ [][\A p \in Procs :
            /\ (iobus_write_check(p, TRUE) /\ send_stat = BUSY) =>
                  (pc'[p] = "w_done" /\ ret'[p] = -EAGAIN /\ CallFrame
                    /\ send_buf' = send_buf)
            /\ ((\E c \in 0..MaxLen : iobus_read_check(p, TRUE, c))
                  /\ recv_stat = BUSY) =>
                  (pc'[p] = "r_done" /\ ret'[p] = -EAGAIN /\ CallFrame
                    /\ send_buf' = send_buf)]_vars
    /\ []((Opened /\ recv_bytes = 0) => recv_stat = BUSY)

\* Both kinds of call have returned WouldBlock, the read before any frame.
C5_Witness ==
    /\ pc["p1"] = "w_done" /\ ret["p1"] = -EAGAIN /\ send_stat = BUSY
    /\ pc["p2"] = "r_done" /\ ret["p2"] = -EAGAIN /\ recv_bytes = 0

\* C6: a write whose copy_from_user fails and a read whose copy_to_user fails
\* return -EFAULT; neither step nor the test before it changes SendState or
\* RecvState, issues a bus cycle or arms a transmission, and the frame
\* pending for a read (recv_buf, recv_bytes) is left as it was.
C6_FaultAbortsCall ==
    [][\A p \in Procs :
          /\ \A f \in TxSome, k \in 0..MaxLen :
                (iobus_write_copy(p, f, k) /\ k < Len(f)) =>
                    (pc'[p] = "w_done" /\ ret'[p] = -EFAULT /\ CallFrame)
          /\ \A k \in 0..MaxLen :
                (iobus_read_copy(p, k) /\ k < recv_bytes) =>
                    (pc'[p] = "r_done" /\ ret'[p] = -EFAULT /\ CallFrame)
          /\ (\E nb \in BOOLEAN :
                \/ iobus_write_check(p, nb)
                \/ \E c \in 0..MaxLen : iobus_read_check(p, nb, c)) =>
                UNCHANGED <<send_stat, recv_stat, recv_bytes, recv_buf, cpld,
                            txram, rxram, lock>>]_vars

\* Both kinds of call have returned the fault; the frame is still pending.
C6_Witness ==
    /\ pc["p1"] = "w_done" /\ ret["p1"] = -EFAULT /\ send_stat = IDLE
    /\ pc["p2"] = "r_done" /\ ret["p2"] = -EFAULT /\ recv_stat = IDLE
    /\ recv_bytes > 0

\* C7: the mask of iobus_poll has the read-ready bits exactly when
\* RecvState=Idle at the sample of recv_stat and the write-ready bits exactly
\* when SendState=Idle at the sample of send_stat, and neither step changes
\* the states, recv_bytes, the buffers or a CPLD register.
C7_PollAgrees ==
    [][\A p \in Procs :
          /\ iobus_poll_recv(p) =>
                /\ ({"POLLIN", "POLLRDNORM"} \subseteq mask'[p]) = (recv_stat = IDLE)
                /\ (mask'[p] \cap {"POLLIN", "POLLRDNORM"} = {}) = (recv_stat # IDLE)
                /\ CallFrame /\ send_buf' = send_buf
          /\ iobus_poll_send(p) =>
                /\ ({"POLLOUT", "POLLWRNORM"} \subseteq mask'[p]) = (send_stat = IDLE)
                /\ (mask'[p] \cap {"POLLOUT", "POLLWRNORM"} = {}) = (send_stat # IDLE)
                /\ mask'[p] \cap {"POLLIN", "POLLRDNORM"} = mask[p]
                /\ CallFrame /\ send_buf' = send_buf]_vars

\* A poll has returned read-ready and write-ready while the other process
\* is in the middle of a read.
C7_Witness ==
    /\ pc["p1"] = "p_done"
    /\ mask["p1"] = {"POLLIN", "POLLRDNORM", "POLLOUT", "POLLWRNORM"}
    /\ pc["p2"] = "r_busy"

\* The direction register agrees with SendState.
DirectionMatches ==
    /\ (cpld.RXTXEN = "RXTXEN_T") = (send_stat = BUSY)
    /\ (cpld.RXTXEN = "RXTXEN_R") = (send_stat = IDLE)

\* C8: once open has returned, whenever the lock is free RXTXEN is in the
\* transmit setting exactly when SendState=Busy and in the receive setting
\* exactly when SendState=Idle; no step of a receive-complete dispatch and
\* no step of iobus_ioctl changes RXTXEN.
C8_DirectionFollowsSendState ==
    /\ []((Opened /\ lock = "free") => DirectionMatches)
    /\ [][(\/ handler_recv_start \/ handler_drain \/ handler_recv_done
           \/ \E p \in Procs : iobus_ioctl(p))
          => cpld'.RXTXEN = cpld.RXTXEN]_vars

\* A control command has been executed while a transmission is armed.
C8_Witness ==
    /\ Opened /\ lock = "free"
    /\ send_stat = BUSY /\ cpld.RXTXEN = "RXTXEN_T"
    /\ pc["p1"] = "i_done" /\ ret["p1"] = 0 /\ cpld.LED = 1

\* The register a control command writes.
OwnRegister(code) ==
    CASE code = "IOBUS_IOC_RUN_STAT" -> "RUNSTAT"
      [] code = "IOBUS_IOC_CH_SEL" -> "CHSEL"
      [] code = "IOBUS_IOC_LED_STAT" -> "LED"
      [] OTHER -> "none"

\* C9: iobus_ioctl returns -ENOTTY without taking the lock and without a
\* register write for a command of another type or with a number out of
\* range; otherwise it returns 0 with the lock free, an unrecognized command
\* writes no register, a recognized one only its own, and no step changes
\* SendState, RecvState, the buffers or the direction register.
C9_ControlCommands ==
    [][\A p \in Procs :
          /\ \A c \in Cmds, a \in Args :
                (iobus_ioctl_check(p, c, a) /\ (~c.magic \/ ~c.inrange)) =>
                    (pc'[p] = "i_done" /\ ret'[p] = -ENOTTY /\ CallFrame
                      /\ send_buf' = send_buf)
          /\ (pc'[p] = "i_lock" /\ pc[p] # "i_lock") =>
                (carg'[p].cmd.magic /\ carg'[p].cmd.inrange)
          /\ iobus_ioctl_switch(p) =>
                /\ pc'[p] = "i_done" /\ ret'[p] = 0 /\ lock' = "free"
                /\ \A r \in DOMAIN cpld :
                      r # OwnRegister(carg[p].cmd.code) => cpld'[r] = cpld[r]
                /\ UNCHANGED <<session, txram, rxram, queues>>]_vars

\* An unrecognized command in range has returned 0 after a recognized one
\* wrote the indicator register.
C9_Witness ==
    /\ pc["p1"] = "i_done" /\ ret["p1"] = 0
    /\ carg["p1"].cmd.code = "default"
    /\ cpld.LED = 1 /\ cpld.RUNSTAT = "RUNSTAT_M"
    /\ lock = "free"

\* C10: every execution of hdlc_interrupt_handler that took the lock has
\* released it when it returns.
C10_HandlerReleasesLock == hpc = "idle" => lock # "irq"

\* What iobus_write has to stage for the frame in send_buf.
Staged(p) ==
    /\ \A a \in Offsets : a < carg[p].count => txram[a] = send_buf[a]
    /\ cpld.RPAR = send_buf[0]
    /\ cpld.TNUMR_L = carg[p].count % 256
    /\ cpld.TNUMR_H = (carg[p].count \div 256) % 256

C12_NoCopyDuringDrain ==
    [][/\ handler_recv_done => haddr = recv_bytes
       /\ \A p \in Procs :
            (\E k \in 0..MaxLen : iobus_read_copy(p, k)) => hpc # "drain"]_vars

\* C13: a dispatch that observes the receive-complete flag with no receive
\* error touches, in all its steps, only RecvState, recv_bytes, recv_buf, the
\* receive-arm bit and the receive queue, also when the transmit-complete
\* flag is set, and it returns without transmit handling; a dispatch that
\* performs transmit handling leaves RecvState, recv_bytes and recv_buf alone.
C13_OneBranchPerDispatch ==
    [][/\ (hpc = "entry" /\ RecvBranch /\ hpc' # "entry") =>
             (hpc' = "drain" /\ UNCHANGED <<send_stat, send_wq, cpld, recv_stat>>)
       /\ (hpc = "drain" /\ <<hpc, haddr>>' # <<hpc, haddr>>) =>
             /\ hpc' \in {"drain", "idle"}
             /\ UNCHANGED <<send_stat, send_wq, send_buf, txram>>
             /\ \A r \in DOMAIN cpld : r # "RTER" => cpld'[r] = cpld[r]
             /\ cpld'.RTER \in {cpld.RTER, cpld.RTER \cup {"HREC_EN"}}
       /\ handler_xmit =>
             (~RecvBranch /\ UNCHANGED <<recv_stat, recv_bytes, recv_buf, recv_wq>>)
      ]_vars

\* A dispatch that observed both completion flags and no receive error has
\* drained a frame while a transmission is armed.
C13_Witness ==
    /\ hpc = "drain" /\ isr = {"RMC", "TMC"} /\ rsr = 0
    /\ haddr = recv_bytes /\ recv_bytes = MaxLen
    /\ send_stat = BUSY /\ cpld.RXTXEN = "RXTXEN_T"

\* C14: no access to the pin registers by one context interleaves with a bus
\* cycle in progress in another, so while a cycle is in progress no step
\* other than the cycle's own changes the level of the write or the read
\* strobe (bits 0 and 1 of GPIO1_DR).
C14_StrobesKeptDuringCycle ==
    [][(bpc # "none" /\ bpc' = bpc) =>
          gpio1_dr' \cap {0, 1} = gpio1_dr \cap {0, 1}]_vars

\* C15: read_cpld samples the data lines while the read strobe is asserted
\* (bit 1 of GPIO1_DR is 0 when GPIO3_DR is read), and the cycle ends with
\* both strobes deasserted and the data lines inputs.
C15_SampledWhileStrobed ==
    [][read_cpld_sample =>
          /\ 1 \notin gpio1_dr
          /\ {0, 1} \subseteq gpio1_dr'
          /\ gpio3_gdir' \cap (16..23) = {}]_vars

\* C16: set_addr leaves every bit of GPIO4_DR outside the ten address lines
\* as it was, for every address passed to it, and write_data leaves every bit
\* of GPIO3_DR outside the eight data lines as it was.
C16_ForeignBitsPreserved ==
    [][/\ (write_cpld_addr \/ read_cpld_addr) =>
             gpio4_dr' \cap GPIO4_ADDR_MSK = gpio4_dr \cap GPIO4_ADDR_MSK
       /\ write_cpld_data =>
             gpio3_dr' \cap GPIO3_DATA_MSK = gpio3_dr \cap GPIO3_DATA_MSK]_vars

\* C17: when hdlc_init returns the receive-arm enable bit of RTER is set,
\* whatever the register held before.
C17_InitArmsReception ==
    [][iobus_open_init => "HREC_EN" \in cpld'.RTER]_vars

\* C18: a read marks as consumed (recv_stat = BUSY, line 353) only the frame
\* it delivered: when it sets RecvState=Busy outside a drain, the frame
\* pending in recv_buf is the one it copied to its caller.
C18_ConsumesWhatItDelivered ==
    [][\A p \in Procs :
          (iobus_read_busy(p) /\ hpc # "drain") =>
              ubuf[p] = copy_to_user(recv_buf, recv_bytes)]_vars

\* C19: the wait queues are initialised before the handler can be invoked:
\* every wake-up the handler issues (lines 225, 237) is on a queue that
\* init_waitqueue_head has initialised.
C19_WakesInitialisedQueues ==
    [][(handler_recv_done \/ handler_xmit) => QueuesInitialised]_vars

\* C20: a read that returns a length has copied to its caller, and returns,
\* at most as many bytes as the capacity the caller passed.
C20_ReadWithinCapacity ==
    \A p \in Procs :
        (pc[p] = "r_done" /\ ret[p] >= 0) =>
            (Len(ubuf[p]) <= carg[p].count /\ ret[p] <= carg[p].count)
====
